---- MODULE Spec2Model ----
(***************************************************************************)
(* Model of the offline queue of the chat client (OfflineQueueService,     *)
(* src/unnamed/part_001).  The service is a static class driven by a       *)
(* single-threaded event loop: every handler runs without preemption up    *)
(* to its next `await`, and the continuation after an await is a separate  *)
(* step that other handlers may precede.  One action of the model is one   *)
(* such run-to-await segment.                                              *)
(*                                                                         *)
(* AsyncStorage is modelled as a store whose operations take effect, in    *)
(* issue order, when they are issued (the value written by setItem is the  *)
(* string built at the call; getItem returns the value present at the      *)
(* call); the promise of each operation resolves at some later step.       *)
(***************************************************************************)
EXTENDS Integers, Sequences, FiniteSets, TLC

\* ---------------------------------------------------------------- bounds
MaxEnqueue == 1       \* queueMessage calls in a behaviour
MaxRetryCalls == 1    \* retryFailed calls in a behaviour
MaxRemoveCalls == 1   \* clearQueue and removeFromQueue calls in a behaviour
MaxReports == 1       \* reports of NetInfo in a behaviour that counts them
MaxClock == 0         \* Date.now() takes the values 0..MaxClock
MaxNotifs == 2        \* notifyListeners calls awaiting getSyncStatus
MaxPasses == 2        \* syncQueue calls in flight at once
MaxOps == 2           \* calls of the vector store in flight at once
MaxIndex == 2         \* indexSession calls in a behaviour
MaxRemove == 1        \* removeSession calls in a behaviour
MaxLimit == 2         \* search and findSimilar take a limit in 1..MaxLimit
MaxCalls == 2         \* provider calls counted for one text
MaxRestarts == 1      \* restarts of the app in a behaviour
MaxSearch == 1        \* search calls, and findSimilar calls, in a behaviour

\* ------------------------------------------------------- program constants
MAX_RETRIES == 3

\* ------------------------------------------------------------- data types
\* The value AsyncStorage holds under QUEUE_KEY: nothing, a string JSON.parse
\* rejects, or the JSON text of a queue.
Null == [kind |-> "null", items |-> <<>>]
Corrupt == [kind |-> "corrupt", items |-> <<>>]
Json(items) == [kind |-> "json", items |-> items]
NoSync == -1              \* nothing stored under SYNC_STATUS_KEY
NoError == "undefined"    \* QueuedMessage.error is unset
SendError == "Network request failed"

Msgs == {"s1_m1"}         \* (sessionId, message.id) pairs the UI enqueues
Listeners == {"ui"}       \* callbacks the UI may subscribe

Range(f) == {f[i] : i \in DOMAIN f}

VARIABLES
    queue,          \* this.queue: sequence of object references
    obj,            \* the QueuedMessage objects, by reference
    isOnline,       \* this.isOnline (cached network state)
    syncListeners,  \* this.syncListeners
    syncTimer,      \* this.syncTimer is set
    initialized,    \* this.initialized
    storedQueue,    \* AsyncStorage value under QUEUE_KEY
    storedStatus,   \* AsyncStorage value under SYNC_STATUS_KEY (lastSync)
    netListener,    \* the NetInfo listener of initialize is registered
    init,           \* the initialize() call: position and awaited values
    awaiting,       \* API calls suspended on their storage write, by kind
    passes,         \* syncQueue() calls in flight
    notifs,         \* notifyListeners() calls suspended in getSyncStatus
    received,       \* last SyncStatus each listener was invoked with
    clock,          \* Date.now() at the latest call that read it
    budget,         \* API calls the UI still makes, by kind (bounds the model)
    ui,             \* the run has a UI component that subscribes
    fails,          \* history: failed deliveries of each enqueued message
    delivered,      \* history: messages whose delivery was confirmed
    removed,        \* history: messages removed by clearQueue/removeFromQueue
    statusCall,     \* the getSyncStatus() call the indicator makes at mount
    documents,      \* VectorDatabase.documents, in insertion order
    embeddingCache, \* VectorDatabase.embeddingCache, in insertion order
    vdbInitialized, \* VectorDatabase.initialized
    storedDocs,     \* AsyncStorage under VECTOR_DB_KEY
    storedCache,    \* AsyncStorage under EMBEDDING_CACHE_KEY
    ops,            \* calls of the vector store suspended at an await
    returned,       \* the last call of the vector store that returned
    embedded,       \* history: provider calls that resolved for an index, by text
    inserted,       \* history: the keys of the cache, first inserted first
    vbudget         \* calls the UI still makes to the vector store, by kind

vars == <<queue, obj, isOnline, syncListeners, syncTimer, initialized,
          storedQueue, storedStatus, netListener, init, awaiting,
          passes, notifs, received, clock, budget, ui, fails, delivered,
          removed, statusCall, documents, embeddingCache, vdbInitialized,
          storedDocs, storedCache, ops, returned, embedded, inserted,
          vbudget>>

\* the queue and its callers
service == <<queue, obj, isOnline, syncListeners, syncTimer, initialized,
             storedQueue, storedStatus, netListener, init, awaiting,
             passes, notifs, received, clock, budget, ui, fails, delivered,
             removed, statusCall>>

\* what the handlers of the queue leave alone
aside == <<statusCall, documents, embeddingCache, vdbInitialized, storedDocs,
           storedCache, ops, returned, embedded, inserted, vbudget>>

Kinds == {"queueMessage", "retryFailed", "clearQueue", "removeFromQueue"}

\* The part of the state the handlers below transform.
St == [queue |-> queue, obj |-> obj, passes |-> passes, notifs |-> notifs,
       storedQueue |-> storedQueue, storedStatus |-> storedStatus]

\* what a listener that was never invoked holds
NoStatus == [lastSync |-> "never called"]

\* The objects of the queue, in queue order.
Items(s) == [i \in 1..Len(s.queue) |-> s.obj[s.queue[i]]]

\* JSON.stringify(this.queue): the objects by value; the parse of initialize
\* rebuilds equal objects (the Date survives the round trip through its ISO
\* string, an undefined error is dropped and read back as undefined), but
\* they are new objects.
Serialize(s) == Items(s)

\* queue.filter(q => q.status === st), as references in queue order
WithStatus(s, st) == SelectSeq(s.queue, LAMBDA r : s.obj[r].status = st)

\* k references not in `used`, smallest first
RECURSIVE Fresh(_, _)
Fresh(used, k) ==
    IF k = 0 THEN <<>>
    ELSE LET r == CHOOSE n \in 1..(Cardinality(used) + 1) :
                      n \notin used /\ \A m \in 1..(n - 1) : m \in used
         IN  <<r>> \o Fresh(used \cup {r}, k - 1)

PassRefs(ps) == UNION {Range(ps[i].items) : i \in DOMAIN ps}

\* saveQueue(): setItem(QUEUE_KEY, JSON.stringify(this.queue))
SaveQueue(s) == [s EXCEPT !.storedQueue = Json(Serialize(s))]

\* getSyncStatus() up to its await: the two counts are taken from the queue
\* and getItem(SYNC_STATUS_KEY) is issued.
GetSyncStatusStart(s) ==
    [pendingCount |-> Len(WithStatus(s, "pending")),
     failedCount  |-> Len(WithStatus(s, "failed")),
     lastSync     |-> s.storedStatus]

\* getSyncStatus() after its await: isOnline and isSyncing are read when the
\* function resumes.
GetSyncStatusEnd(n, q, o, online) ==
    [lastSync     |-> n.lastSync,
     pendingCount |-> n.pendingCount,
     failedCount  |-> n.failedCount,
     isOnline     |-> online,
     isSyncing    |-> \E i \in 1..Len(q) : o[q[i]].status = "syncing"]

\* notifyListeners() up to its await.  When it resumes it calls the listeners
\* subscribed then and does nothing else, so the suspended call is kept only
\* in runs in which a listener can be subscribed (ui).
NotifyListeners(s) ==
    IF ui THEN [s EXCEPT !.notifs = Append(@, GetSyncStatusStart(s))] ELSE s

\* a syncQueue() without the guard on the cached network state
SyncQueueAlways(s, online, by) ==
    LET pendingMessages == WithStatus(s, "pending") IN
    IF Len(pendingMessages) = 0 THEN s
    ELSE [NotifyListeners([s EXCEPT !.obj =
              [r \in DOMAIN s.obj |->
                  IF r \in Range(pendingMessages)
                  THEN [s.obj[r] EXCEPT !.status = "syncing"]
                  ELSE s.obj[r]]])
          EXCEPT !.passes = Append(@, [items |-> pendingMessages, idx |-> 1,
                                       phase |-> "send", by |-> by])]

\* syncQueue() up to its first await: the guards, the marking of the pending
\* messages, the notification and the call of sendMessage for the first one.
\* `by` names the caller; the pass carries it while it is in its loop.
SyncQueue(s, online, by) ==
    IF ~online THEN s
    ELSE LET pendingMessages == WithStatus(s, "pending") IN
         IF Len(pendingMessages) = 0 THEN s
         ELSE LET marked == [s EXCEPT !.obj =
                      [r \in DOMAIN s.obj |->
                          IF r \in Range(pendingMessages)
                          THEN [s.obj[r] EXCEPT !.status = "syncing"]
                          ELSE s.obj[r]]]
                  told == NotifyListeners(marked)
              IN  [told EXCEPT !.passes =
                      Append(@, [items |-> pendingMessages, idx |-> 1,
                                 phase |-> "send", by |-> by])]

\* the catch block with a bound that is checked before the increment
AfterFailureUnbounded(o) ==
    IF o.retryCount >= MAX_RETRIES
    THEN [o EXCEPT !.retryCount = @ + 1, !.status = "failed",
                   !.error = SendError]
    ELSE [o EXCEPT !.retryCount = @ + 1, !.status = "pending"]

\* the catch block of syncQueue's loop
AfterFailure(o) ==
    IF o.retryCount + 1 >= MAX_RETRIES
    THEN [o EXCEPT !.retryCount = @ + 1, !.status = "failed",
                   !.error = SendError]
    ELSE [o EXCEPT !.retryCount = @ + 1, !.status = "pending"]

\* this.queue.filter(q => q.id !== id)
WithoutId(s, id) == SelectSeq(s.queue, LAMBDA r : s.obj[r].id # id)

\* The new values of the handler-owned variables; objects no longer
\* referenced by the queue or by a pass are dropped.
Commit(s) ==
    LET live == Range(s.queue) \cup PassRefs(s.passes) IN
    /\ Len(s.notifs) <= MaxNotifs
    /\ Len(s.passes) <= MaxPasses
    /\ queue' = s.queue
    /\ obj' = [r \in live |-> s.obj[r]]
    /\ passes' = s.passes
    /\ notifs' = s.notifs
    /\ storedQueue' = s.storedQueue
    /\ storedStatus' = s.storedStatus

hist == <<fails, delivered, removed>>
env == <<clock, budget, ui>>
boot == <<initialized, init, netListener, syncTimer>>
subs == <<syncListeners, received>>

\* no getSyncStatus() call of the UI has been made
NoCall == [pc |-> "idle", counts |-> NoStatus, at |-> NoStatus,
           result |-> NoStatus]

\* ============================================================ vector store
\* VectorDatabase of src/utils/openai.ts.  A Map is a sequence in insertion
\* order: of documents for `documents`, of [key, value] for `embeddingCache`.

\* the embedding provider, createEmbedding: a deterministic function of the
\* text alone (vectors of 4 numbers here instead of 256); a text without a
\* word gets the zero vector
Embed(text) ==
    CASE text = "hello" -> <<1, 0, 0, 0>>
      [] text = "seven" -> <<7, 1, 5, 5>>
      [] text = "hi all" -> <<4, 3, 0, 0>>
      [] text = "42" -> <<0, 1, 0, 0>>
      [] text = "" -> <<0, 0, 0, 0>>
      [] OTHER -> <<0, 0, 0, 1>>

\* new Date(t), and what JSON.parse(JSON.stringify(..)) leaves of it: the ISO
\* string
Date(t) == [date |-> t]
IsoString(d) == [iso |-> d.date]

Message(id, content, t) == [id |-> id, content |-> content, timestamp |-> Date(t)]

\* `${session.id}_${message.id}`
DocId(session, message) == session.id \o "_" \o message.id

\* the VectorDocument indexSession builds (metadata left out: nothing reads
\* it but the mapping of the results)
NewDoc(session, message, embedding) ==
    [id |-> DocId(session, message), sessionId |-> session.id,
     messageId |-> message.id, content |-> message.content,
     embedding |-> embedding, timestamp |-> message.timestamp]

\* Map.has / Map.get / Map.set / Map.delete on a sequence of documents by id
HasDoc(docs, id) == \E i \in 1..Len(docs) : docs[i].id = id
GetDoc(docs, id) == docs[CHOOSE i \in 1..Len(docs) : docs[i].id = id]
SetDoc(docs, doc) ==
    IF HasDoc(docs, doc.id)
    THEN [i \in 1..Len(docs) |-> IF docs[i].id = doc.id THEN doc ELSE docs[i]]
    ELSE Append(docs, doc)

\* the same on the cache, by key
HasKey(cache, key) == \E i \in 1..Len(cache) : cache[i].key = key
GetKey(cache, key) == cache[CHOOSE i \in 1..Len(cache) : cache[i].key = key].value
SetKey(cache, key, value) ==
    IF HasKey(cache, key)
    THEN [i \in 1..Len(cache) |->
             IF cache[i].key = key THEN [key |-> key, value |-> value]
             ELSE cache[i]]
    ELSE Append(cache, [key |-> key, value |-> value])

\* a removeSession that removes every document
WithoutAny(docs, sessionId) == <<>>

\* removeSession: the documents of the other sessions, in their order
WithoutSession(docs, sessionId) ==
    SelectSeq(docs, LAMBDA d : d.sessionId # sessionId)

\* ---- JSON
\* An object lists its integer-like keys first, in ascending order, and then
\* the other keys in the order they were added; JSON.stringify, JSON.parse
\* and Object.entries all follow that order.
MaxIndexKey == 1001
IndexKeys == [i \in 1..(MaxIndexKey + 1) |-> ToString(i - 1)]
IndexKeySet == Range(IndexKeys)

\* the values of an object in that order, keys[i] being the key of
\* values[i] and the keys added in the order given
ObjectOrder(keys, values) ==
    LET held == Range(keys) \cap IndexKeySet
        ints == IF held = {} THEN <<>>
                ELSE SelectSeq(IndexKeys, LAMBDA k : k \in held)
        rest == SelectSeq([i \in 1..Len(keys) |-> i],
                          LAMBDA i : keys[i] \notin IndexKeySet)
    IN  [i \in 1..Len(ints) |->
            values[CHOOSE j \in 1..Len(keys) : keys[j] = ints[i]]]
        \o [i \in 1..Len(rest) |-> values[rest[i]]]

\* JSON.stringify(docsObject) and new Map(Object.entries(JSON.parse(..))): a
\* Date is written as its ISO string and read back as that string
StringifyDocs(docs) ==
    Json(ObjectOrder(
        [i \in 1..Len(docs) |-> docs[i].id],
        [i \in 1..Len(docs) |->
            IF "date" \in DOMAIN docs[i].timestamp
            THEN [docs[i] EXCEPT !.timestamp = IsoString(docs[i].timestamp)]
            ELSE docs[i]]))

StringifyCache(cache) ==
    Json(ObjectOrder([i \in 1..Len(cache) |-> cache[i].key], cache))

\* new Map(Object.entries(JSON.parse(text)))
Parse(text) == text.items

\* ---- cosine similarity
\* A score is the number num / sqrt(den2), kept as the pair so that equal
\* scores are equal and a score is compared with 0.7 exactly.
RECURSIVE Dot(_, _, _)
Dot(vec1, vec2, i) ==
    IF i > Len(vec1) THEN 0 ELSE vec1[i] * vec2[i] + Dot(vec1, vec2, i + 1)

Zero == [num |-> 0, den2 |-> 1]

CosineSimilarity(vec1, vec2) ==
    IF Len(vec1) # Len(vec2) THEN Zero
    ELSE LET dotProduct == Dot(vec1, vec2, 1)
             norm1 == Dot(vec1, vec1, 1)
             norm2 == Dot(vec2, vec2, 1)
         IN  IF norm1 * norm2 = 0 THEN Zero
             ELSE [num |-> dotProduct, den2 |-> norm1 * norm2]

\* the sign-carrying square of a score over the common denominator
Signed(a, b) == (IF a.num < 0 THEN -1 ELSE 1) * a.num * a.num * b.den2
\* a < b as numbers
Less(a, b) == Signed(a, b) < Signed(b, a)

\* score > 0.7
ThresholdNum == 7
ThresholdDen == 10
AboveThreshold(score) ==
    /\ score.num > 0
    /\ ThresholdDen * ThresholdDen * score.num * score.num
           > ThresholdNum * ThresholdNum * score.den2

\* results.sort((a, b) => b.score - a.score): stable, so results of equal
\* score keep the order they had
RECURSIVE Sort(_)
Sort(results) ==
    IF Len(results) <= 1 THEN results
    ELSE LET rest == Sort(Tail(results))
             x == Head(results)
             \* x goes before the first result of a smaller or equal score
             k == Cardinality({i \in 1..Len(rest) : Less(x.score, rest[i].score)})
         IN  SubSeq(rest, 1, k) \o <<x>> \o SubSeq(rest, k + 1, Len(rest))

\* results.slice(0, limit), limit >= 0
Slice(results, limit) ==
    SubSeq(results, 1, IF limit < Len(results) THEN limit ELSE Len(results))

\* .map(({doc, score}) => ({...})): a SearchResult
Results(rs) ==
    [i \in 1..Len(rs) |->
        [sessionId |-> rs[i].doc.sessionId, messageId |-> rs[i].doc.messageId,
         content |-> rs[i].doc.content, score |-> rs[i].score,
         timestamp |-> rs[i].doc.timestamp]]

\* a search that skips the documents of another dimensionality
ScoredSameLength(docs, embedding) ==
    LET same == SelectSeq(docs, LAMBDA d : Len(d.embedding) = Len(embedding))
    IN  [i \in 1..Len(same) |->
            [doc |-> same[i],
             score |-> CosineSimilarity(embedding, same[i].embedding)]]

\* the body of search once the query embedding is there
Scored(docs, embedding) ==
    [i \in 1..Len(docs) |->
        [doc |-> docs[i], score |-> CosineSimilarity(embedding, docs[i].embedding)]]

Search(docs, queryEmbedding, limit) ==
    Results(Slice(Sort(Scored(docs, queryEmbedding)), limit))

\* excludeSessionId && doc.sessionId === excludeSessionId: an undefined or
\* empty id is falsy and excludes nothing
NoExclude == "undefined"
Excluded(doc, messageContent, excludeSessionId) ==
    \/ /\ excludeSessionId # NoExclude
       /\ excludeSessionId # ""
       /\ doc.sessionId = excludeSessionId
    \/ doc.content = messageContent

\* the body of findSimilar once the embedding is there
FindSimilar(docs, embedding, messageContent, excludeSessionId, limit) ==
    LET kept == SelectSeq(Scored(docs, embedding), LAMBDA r :
                    /\ ~Excluded(r.doc, messageContent, excludeSessionId)
                    /\ AboveThreshold(r.score))
    IN  Results(Slice(Sort(kept), limit))

\* saveToStorage: the cache it writes
CacheLimit == 1000
CacheKeep == 500
Prune(cache) ==
    IF Len(cache) > CacheLimit
    THEN SubSeq(cache, Len(cache) - CacheKeep + 1, Len(cache))
    ELSE cache

\* ------------------------------------------------- vector store: operations
\* The part of the state the operations of the vector store transform.
Vs == [documents |-> documents, embeddingCache |-> embeddingCache,
       storedDocs |-> storedDocs, storedCache |-> storedCache,
       returned |-> returned, embedded |-> embedded, inserted |-> inserted]

\* a call in flight: its kind, the await it is suspended at, its arguments
\* and, for indexSession, the message the loop is at and (history) the
\* messages whose createEmbedding has rejected ({1} for the one call of a
\* search or findSimilar) and whether a removeSession of its conversation
\* has returned since the call was made
Op(kind, session, text, exclude, limit) ==
    [kind |-> kind, pc |-> "called", session |-> session, i |-> 1,
     text |-> text, exclude |-> exclude, limit |-> limit, got |-> Null,
     failed |-> {}, cut |-> FALSE]

\* the call returns: what the caller gets
Return(v, op, results) ==
    [v |-> [v EXCEPT !.returned = [op |-> [op EXCEPT !.pc = "done", !.got = Null],
                                   results |-> results]],
     op |-> [op EXCEPT !.pc = "done"]]

\* the history of insertions, of the keys the cache holds
Known(keys, cache) ==
    LET held == {cache[i].key : i \in 1..Len(cache)}
    IN  SelectSeq(keys, LAMBDA k : k \in held)
\* the history after set(key, ..)
Insert(keys, key) ==
    IF \E i \in 1..Len(keys) : keys[i] = key THEN keys ELSE Append(keys, key)

\* saveToStorage up to its first await: setItem(VECTOR_DB_KEY, ..)
SaveToStorage(v, op) ==
    [v |-> [v EXCEPT !.storedDocs = StringifyDocs(v.documents)],
     op |-> [op EXCEPT !.pc = "setDocs"]]

\* saveToStorage from there to its second await: the cache is cut when it
\* has grown over the limit, then setItem(EMBEDDING_CACHE_KEY, ..)
SaveCache(v, op) ==
    LET cache == Prune(v.embeddingCache)
    IN  [v |-> [v EXCEPT !.embeddingCache = cache,
                         !.storedCache = StringifyCache(cache),
                         !.embedded = [t \in DOMAIN v.embedded |->
                             IF HasKey(cache, t) THEN v.embedded[t] ELSE 0],
                         !.inserted = Known(@, cache)],
         op |-> [op EXCEPT !.pc = "setCache"]]

\* the loop of an indexSession that looks at no existing document
RECURSIVE IndexLoopAlways(_, _, _, _)
IndexLoopAlways(docs, cache, session, i) ==
    IF i > Len(session.messages) THEN [documents |-> docs, i |-> i]
    ELSE LET message == session.messages[i]
         IN  IF HasKey(cache, message.content)
             THEN IndexLoopAlways(SetDoc(docs, NewDoc(session, message,
                                      GetKey(cache, message.content))),
                                  cache, session, i + 1)
             ELSE [documents |-> docs, i |-> i]

\* the loop of indexSession from message i on, up to the first message that
\* needs the provider: the documents it has set by then and where it stops
RECURSIVE IndexLoop(_, _, _, _)
IndexLoop(docs, cache, session, i) ==
    IF i > Len(session.messages) THEN [documents |-> docs, i |-> i]
    ELSE LET message == session.messages[i]
             docId == DocId(session, message)
         IN  IF HasDoc(docs, docId) /\ GetDoc(docs, docId).content = message.content
             THEN IndexLoop(docs, cache, session, i + 1)
             ELSE IF HasKey(cache, message.content)
             THEN IndexLoop(SetDoc(docs, NewDoc(session, message,
                                GetKey(cache, message.content))),
                            cache, session, i + 1)
             ELSE [documents |-> docs, i |-> i]

\* indexSession from message op.i to its next await
IndexFrom(v, op) ==
    LET r == IndexLoop(v.documents, v.embeddingCache, op.session, op.i)
        w == [v EXCEPT !.documents = r.documents]
    IN  IF r.i > Len(op.session.messages)
        THEN SaveToStorage(w, [op EXCEPT !.i = r.i])
        ELSE [v |-> w, op |-> [op EXCEPT !.pc = "createEmbedding", !.i = r.i]]

\* an operation from the return of `await this.initialize()` to its next
\* await or to its return
Body(v, op) ==
    CASE op.kind = "indexSession" -> IndexFrom(v, op)
      [] op.kind = "removeSession" ->
            SaveToStorage([v EXCEPT !.documents =
                               WithoutSession(v.documents, op.session.id)], op)
      [] op.kind = "search" ->
            IF Len(v.documents) = 0 THEN Return(v, op, <<>>)
            ELSE [v |-> v, op |-> [op EXCEPT !.pc = "createEmbedding"]]
      [] op.kind = "findSimilar" ->
            IF HasKey(v.embeddingCache, op.text)
            THEN Return(v, op, FindSimilar(v.documents,
                     GetKey(v.embeddingCache, op.text), op.text, op.exclude,
                     op.limit))
            ELSE [v |-> v, op |-> [op EXCEPT !.pc = "createEmbedding"]]

\* one more successful call of the provider for the text, for an index
Called(emb, text) ==
    IF text \in DOMAIN emb
    THEN [emb EXCEPT ![text] = IF @ < MaxCalls THEN @ + 1 ELSE @]
    ELSE emb

\* an indexSession that gives up at the first createEmbedding that rejects
EmbeddedAbort(v, op, ok) ==
    CASE op.kind = "indexSession" ->
            LET message == op.session.messages[op.i]
                next == [op EXCEPT !.i = op.i + 1]
            IN  IF ok
                THEN IndexFrom(
                       [v EXCEPT
                          !.embeddingCache = SetKey(@, message.content,
                                                    Embed(message.content)),
                          !.documents = SetDoc(@, NewDoc(op.session, message,
                                                    Embed(message.content))),
                          !.embedded = Called(@, message.content),
                          !.inserted = Insert(@, message.content)], next)
                ELSE SaveToStorage(v, [op EXCEPT
                         !.i = Len(op.session.messages) + 1,
                         !.failed = @ \cup {op.i}])
      [] op.kind = "search" ->
            IF ok THEN Return(v, op, Search(v.documents, Embed(op.text), op.limit))
            ELSE Return(v, [op EXCEPT !.failed = {1}], <<>>)
      [] op.kind = "findSimilar" ->
            IF ok THEN Return(v, op, FindSimilar(v.documents, Embed(op.text),
                                         op.text, op.exclude, op.limit))
            ELSE Return(v, [op EXCEPT !.failed = {1}], <<>>)

\* the operation after createEmbedding has resolved (ok) or rejected
Embedded(v, op, ok) ==
    CASE op.kind = "indexSession" ->
            LET message == op.session.messages[op.i]
                next == [op EXCEPT !.i = op.i + 1]
            IN  IF ok
                THEN IndexFrom(
                       [v EXCEPT
                          !.embeddingCache = SetKey(@, message.content,
                                                    Embed(message.content)),
                          !.documents = SetDoc(@, NewDoc(op.session, message,
                                                    Embed(message.content))),
                          !.embedded = Called(@, message.content),
                          !.inserted = Insert(@, message.content)], next)
                ELSE IndexFrom(v, [next EXCEPT !.failed = @ \cup {op.i}])
      [] op.kind = "search" ->
            IF ok THEN Return(v, op, Search(v.documents, Embed(op.text), op.limit))
            ELSE Return(v, [op EXCEPT !.failed = {1}], <<>>)
      [] op.kind = "findSimilar" ->
            IF ok THEN Return(v, op, FindSimilar(v.documents, Embed(op.text),
                                         op.text, op.exclude, op.limit))
            ELSE Return(v, [op EXCEPT !.failed = {1}], <<>>)

\* the operations in flight with the k-th replaced, or dropped when it has
\* returned
WithOp(k, op) ==
    IF op.pc = "done"
    THEN SubSeq(ops, 1, k - 1) \o SubSeq(ops, k + 1, Len(ops))
    ELSE [ops EXCEPT ![k] = op]

VCommit(r) ==
    /\ documents' = r.v.documents
    /\ embeddingCache' = r.v.embeddingCache
    /\ storedDocs' = r.v.storedDocs
    /\ storedCache' = r.v.storedCache
    /\ returned' = r.v.returned
    /\ embedded' = r.v.embedded
    /\ inserted' = r.v.inserted

\* The UI calls indexSession, removeSession, search or findSimilar.  The
\* call runs initialize() first: with the flag set that returns at once and
\* the operation goes on to its own first await; otherwise initialize()
\* suspends at getItem(VECTOR_DB_KEY).
Call(op) ==
    /\ vbudget[op.kind] > 0
    /\ Len(ops) < MaxOps
    /\ vbudget' = [vbudget EXCEPT ![op.kind] = @ - 1]
    /\ IF vdbInitialized
       THEN LET r == Body(Vs, op)
            IN  /\ VCommit(r)
                /\ ops' = IF r.op.pc = "done" THEN ops ELSE Append(ops, r.op)
       ELSE /\ ops' = Append(ops, [op EXCEPT !.pc = "getDocs", !.got = storedDocs])
            /\ UNCHANGED <<documents, embeddingCache, storedDocs, storedCache,
                           returned, embedded, inserted>>
    /\ UNCHANGED <<vdbInitialized, service>>

\* initialize() resumes with the stored documents.  A text JSON.parse
\* rejects takes it to the catch, which sets the flag and returns; so the
\* operation goes on.
InitializeDocs(k) ==
    /\ k \in 1..Len(ops)
    /\ ops[k].pc = "getDocs"
    /\ IF ops[k].got = Corrupt
       THEN LET r == Body(Vs, [ops[k] EXCEPT !.got = Null])
            IN  /\ vdbInitialized' = TRUE
                /\ VCommit(r)
                /\ ops' = WithOp(k, r.op)
       ELSE /\ documents' = IF ops[k].got = Null THEN documents
                            ELSE Parse(ops[k].got)
            /\ ops' = [ops EXCEPT ![k].pc = "getCache", ![k].got = storedCache]
            /\ UNCHANGED <<vdbInitialized, embeddingCache, storedDocs,
                           storedCache, returned, embedded, inserted>>
    /\ UNCHANGED <<vbudget, service>>

\* initialize() resumes with the stored cache, sets the flag and returns,
\* and the operation goes on to its own first await.
InitializeCache(k) ==
    /\ k \in 1..Len(ops)
    /\ ops[k].pc = "getCache"
    /\ LET got == ops[k].got
           v == IF got \in {Null, Corrupt} THEN Vs
                ELSE [Vs EXCEPT !.embeddingCache = Parse(got),
                                !.inserted = Known(@, Parse(got))]
           r == Body(v, [ops[k] EXCEPT !.got = Null])
       IN  /\ VCommit(r)
           /\ ops' = WithOp(k, r.op)
    /\ vdbInitialized' = TRUE
    /\ UNCHANGED <<vbudget, service>>

\* createEmbedding settles
ProviderResult(k, ok) ==
    /\ k \in 1..Len(ops)
    /\ ops[k].pc = "createEmbedding"
    /\ LET r == Embedded(Vs, ops[k], ok)
       IN  /\ VCommit(r)
           /\ ops' = WithOp(k, r.op)
    /\ UNCHANGED <<vdbInitialized, vbudget, service>>

\* setItem(VECTOR_DB_KEY, ..) has resolved
SaveResume(k) ==
    /\ k \in 1..Len(ops)
    /\ ops[k].pc = "setDocs"
    /\ LET r == SaveCache(Vs, ops[k])
       IN  /\ VCommit(r)
           /\ ops' = WithOp(k, r.op)
    /\ UNCHANGED <<vdbInitialized, vbudget, service>>

\* (history) the calls in flight when `done` returns: an indexSession of the
\* conversation a removeSession has removed is marked
Overtaken(os, done) ==
    [j \in 1..Len(os) |->
        IF /\ done.kind = "removeSession"
           /\ os[j].kind = "indexSession"
           /\ os[j].session.id = done.session.id
        THEN [os[j] EXCEPT !.cut = TRUE]
        ELSE os[j]]

\* setItem(EMBEDDING_CACHE_KEY, ..) has resolved: indexSession or
\* removeSession returns
SaveDone(k) ==
    /\ k \in 1..Len(ops)
    /\ ops[k].pc = "setCache"
    /\ LET r == Return(Vs, ops[k], <<>>)
       IN  /\ VCommit(r)
           /\ ops' = Overtaken(WithOp(k, r.op), r.op)
    /\ UNCHANGED <<vdbInitialized, vbudget, service>>

\* ---- the vector store at the load of the class, and its inputs
NoSession == [id |-> "", messages |-> <<>>]
NoReturn == [op |-> Op("none", NoSession, "", NoExclude, 0), results |-> <<>>]

\* the conversations the UI indexes: c1, c1 after its second message was
\* edited, and c2, whose message repeats a text of c1
Session1 ==
    [id |-> "c1", messages |-> <<Message("m1", "hello", 1), Message("m2", "seven", 2)>>]
Session1Edited ==
    [id |-> "c1", messages |-> <<Message("m1", "hello", 1), Message("m2", "hi all", 2)>>]
Session2 ==
    [id |-> "c2", messages |-> <<Message("m1", "hello", 3)>>]
\* the conversation of the stored document
Session0 ==
    [id |-> "c0", messages |-> <<Message("m0", "old", 0)>>]
\* a conversation whose message is a number
Session3 ==
    [id |-> "c3", messages |-> <<Message("m1", "42", 4)>>]
Sessions == {Session0, Session1, Session1Edited, Session2, Session3}
Texts == UNION {{s.messages[i].content : i \in 1..Len(s.messages)} : s \in Sessions}

\* a document and a cache entry an earlier run has stored, with the vectors
\* of the provider of that time
OldDoc ==
    [id |-> "c0_m0", sessionId |-> "c0", messageId |-> "m0", content |-> "old",
     embedding |-> <<1, 0>>, timestamp |-> IsoString(Date(0))]
OldEntry == [key |-> "old", value |-> <<1, 0>>]

\* the texts the UI searches for, and the conversations findSimilar is told
\* to leave out
Queries == {"hello", ""}
Excludes == {NoExclude, "c1"}

\* what a behaviour bounds: the calls, and the restarts of the app
VBudgets == {"indexSession", "removeSession", "search", "findSimilar", "restart"}

\* the vector store nobody has called
VectorIdle ==
    /\ documents = <<>>
    /\ embeddingCache = <<>>
    /\ vdbInitialized = FALSE
    /\ storedDocs = Null
    /\ storedCache = Null
    /\ ops = <<>>
    /\ returned = NoReturn
    /\ embedded = [t \in Texts |-> 0]
    /\ inserted = <<>>
    /\ vbudget = [k \in VBudgets |-> 0]

\* ------------------------------------------------------------ initial state
\* What a previous run of the app may have left under QUEUE_KEY: nothing (the
\* first run), an unreadable string, an empty queue, a queue saved by
\* queueMessage while offline, or a queue saved (by queueMessage for a later
\* message, since delivered) while a pass was retrying an earlier message.
OldPending == [id |-> <<"s0_m0", 0>>, tag |-> 0, status |-> "pending",
               retryCount |-> 0, error |-> NoError]
OldSyncing == [id |-> <<"s0_m0", 0>>, tag |-> 0, status |-> "syncing",
               retryCount |-> 1, error |-> NoError]
Snapshots == {Null, Corrupt, Json(<<>>), Json(<<OldPending>>),
              Json(<<OldSyncing>>)}

Tags == 0..MaxEnqueue     \* 0: the message of the previous run

\* The state after the class is loaded, before any call.
Constructed ==
    /\ queue = <<>>
    /\ obj = <<>>
    /\ isOnline = TRUE
    /\ syncListeners = {}
    /\ syncTimer = FALSE
    /\ initialized = FALSE
    /\ storedQueue \in Snapshots
    /\ storedStatus = NoSync
    /\ netListener = FALSE
    /\ init = [pc |-> "idle", got |-> Null]
    /\ awaiting = [k \in Kinds |-> 0]
    /\ passes = <<>>
    /\ notifs = <<>>
    /\ received = [l \in Listeners |-> NoStatus]
    /\ clock = 0
    /\ fails = [t \in Tags |-> 0]
    /\ delivered = {}
    /\ removed = {}
    /\ statusCall = NoCall
    /\ VectorIdle

Budgets == {"queueMessage", "retryFailed", "remove", "NetInfo"}

\* The runs of Spec: no subscriber; the UI enqueues and retries.
Init ==
    /\ Constructed
    /\ ui = FALSE
    /\ budget = [k \in Budgets |->
                    CASE k = "queueMessage" -> MaxEnqueue
                      [] k = "retryFailed" -> MaxRetryCalls
                      [] OTHER -> 0]

\* ------------------------------------------------------------- initialize
\* initialize() up to `await AsyncStorage.getItem(QUEUE_KEY)`.  The app calls
\* it once, when the indicator mounts.
InitializeStart ==
    /\ ~initialized
    /\ init.pc = "idle"
    /\ init' = [init EXCEPT !.pc = "getItem", !.got = storedQueue]
    /\ UNCHANGED <<queue, obj, isOnline, subs, syncTimer, initialized,
                   storedQueue, storedStatus, env, netListener, awaiting,
                   passes, notifs, hist>>
    /\ UNCHANGED aside

\* the objects JSON.parse(...).map(...) builds from a stored queue
Parsed(s, stored) ==
    LET refs == Fresh(PassRefs(s.passes), Len(stored)) IN
    [s EXCEPT !.queue = refs,
              !.obj = [r \in PassRefs(s.passes) \cup Range(refs) |->
                          IF r \in Range(refs)
                          THEN stored[CHOOSE i \in 1..Len(refs) : refs[i] = r]
                          ELSE s.obj[r]]]

\* initialize() from the resolution of getItem to `await NetInfo.fetch()`:
\* the stored queue replaces this.queue, the listener is registered.  A
\* string that does not parse throws into the catch block.
InitializeLoad ==
    /\ init.pc = "getItem"
    /\ IF init.got = Corrupt
       THEN /\ initialized' = TRUE
            /\ init' = [pc |-> "done", got |-> Null]
            /\ UNCHANGED <<queue, obj, passes, notifs, storedQueue,
                           storedStatus, netListener>>
       ELSE /\ Commit(IF init.got = Null THEN St
                      ELSE Parsed(St, init.got.items))
            /\ netListener' = TRUE
            /\ init' = [pc |-> "fetch", got |-> Null]
            /\ UNCHANGED initialized
    /\ UNCHANGED <<isOnline, subs, syncTimer, env, awaiting, hist>>
    /\ UNCHANGED aside

\* initialize() from the resolution of NetInfo.fetch() to its end, for a
\* fetched state with the given isConnected.
InitializeFinish(isConnected) ==
    /\ init.pc = "fetch"
    /\ isOnline' = isConnected
    /\ syncTimer' = TRUE
    /\ initialized' = TRUE
    /\ init' = [init EXCEPT !.pc = "done"]
    /\ UNCHANGED <<queue, obj, subs, storedQueue, storedStatus, env,
                   netListener, awaiting, passes, notifs, hist>>
    /\ UNCHANGED aside

\* ------------------------------------------------------- network and timer
\* a listener that records the new state and leaves the sync to the timer
NetInfoCallbackNoSync(s, wasOffline, isConnected) == s

\* the callback initialize registers with NetInfo.addEventListener, up to
\* the call of notifyListeners
NetInfoCallback(s, wasOffline, isConnected) ==
    IF wasOffline /\ isConnected THEN SyncQueue(s, isConnected, "NetInfo") ELSE s

\* NetInfo reports a state with the given isConnected to the callback.
NetInfoReport(isConnected) ==
    /\ netListener
    /\ isOnline' = isConnected
    /\ Commit(NotifyListeners(NetInfoCallback(St, ~isOnline, isConnected)))
    /\ UNCHANGED <<subs, boot, clock, ui, awaiting, hist>>
    /\ UNCHANGED aside

NetInfoEvent(isConnected) ==
    /\ NetInfoReport(isConnected)
    /\ UNCHANGED budget

\* the same report in the runs that count the reports of NetInfo
NetInfoCounted(isConnected) ==
    /\ budget["NetInfo"] > 0
    /\ budget' = [budget EXCEPT !["NetInfo"] = @ - 1]
    /\ NetInfoReport(isConnected)

\* setOfflineMode(offline)
SetOfflineMode(offline) ==
    /\ isOnline' = ~offline
    /\ Commit(SyncQueue(NotifyListeners(St), ~offline, "setOfflineMode"))
    /\ UNCHANGED <<subs, boot, env, awaiting, hist>>
    /\ UNCHANGED aside

\* the setInterval callback of startPeriodicSync
PeriodicSync ==
    /\ syncTimer
    /\ isOnline
    /\ Commit(SyncQueue(St, isOnline, "timer"))
    /\ UNCHANGED <<isOnline, subs, boot, env, awaiting, hist>>
    /\ UNCHANGED aside


\* ------------------------------------------------------------ queueMessage
\* the object queueMessage builds; `tag` is not a field of the program: it
\* names the enqueue call, so that the history variables can follow one
\* message through copies of its object.
NewMessage(m, now, n) ==
    [id |-> <<m, now>>, tag |-> n, status |-> "pending", retryCount |-> 0,
     error |-> NoError]

\* the tag of the next enqueue call: 1, 2, ...
NextTag == MaxEnqueue - budget["queueMessage"] + 1

\* this.queue.push(queuedMessage)
Push(s, o) ==
    LET r == Fresh(DOMAIN s.obj, 1)[1] IN
    [s EXCEPT !.queue = Append(@, r),
              !.obj = [x \in DOMAIN s.obj \cup {r} |->
                          IF x = r THEN o ELSE s.obj[x]]]

\* queueMessage(sessionId, message) up to `await this.saveQueue()`, called
\* when Date.now() is `now`
QueueMessageStart(m, now) ==
    /\ budget["queueMessage"] > 0
    /\ budget' = [budget EXCEPT !["queueMessage"] = @ - 1]
    /\ clock' = now
    /\ awaiting' = [awaiting EXCEPT !["queueMessage"] = @ + 1]
    /\ Commit(SaveQueue(Push(St, NewMessage(m, now, NextTag))))
    /\ UNCHANGED <<isOnline, subs, boot, ui, hist>>
    /\ UNCHANGED aside

\* a queueMessage that syncs whatever the cached network state is
QueueMessageRestAlways(s, online) ==
    SyncQueue(NotifyListeners(s), TRUE, "queueMessage")

\* the rest of queueMessage: notify, then sync if online
QueueMessageRest(s, online) ==
    IF online THEN SyncQueue(NotifyListeners(s), online, "queueMessage")
    ELSE NotifyListeners(s)

QueueMessageResume ==
    /\ awaiting["queueMessage"] > 0
    /\ awaiting' = [awaiting EXCEPT !["queueMessage"] = @ - 1]
    /\ Commit(QueueMessageRest(St, isOnline))
    /\ UNCHANGED <<isOnline, subs, boot, env, hist>>
    /\ UNCHANGED aside

\* ------------------------------------------------------------- retryFailed
\* a reset that makes the failed messages Pending and keeps their counters
ResetFailedKeepCount(s) ==
    [s EXCEPT !.obj = [r \in DOMAIN s.obj |->
        IF r \in Range(WithStatus(s, "failed"))
        THEN [s.obj[r] EXCEPT !.status = "pending"]
        ELSE s.obj[r]]]

\* the forEach of retryFailed
ResetFailed(s) ==
    [s EXCEPT !.obj = [r \in DOMAIN s.obj |->
        IF r \in Range(WithStatus(s, "failed"))
        THEN [s.obj[r] EXCEPT !.status = "pending", !.retryCount = 0,
                              !.error = NoError]
        ELSE s.obj[r]]]

\* retryFailed() up to `await this.saveQueue()`
RetryFailedStart ==
    /\ budget["retryFailed"] > 0
    /\ budget' = [budget EXCEPT !["retryFailed"] = @ - 1]
    /\ awaiting' = [awaiting EXCEPT !["retryFailed"] = @ + 1]
    /\ Commit(SaveQueue(ResetFailed(St)))
    /\ UNCHANGED <<isOnline, subs, boot, clock, ui, hist>>
    /\ UNCHANGED aside

\* the rest of retryFailed: this.syncQueue()
RetryFailedRest(s, online) == SyncQueue(s, online, "retryFailed")

RetryFailedResume ==
    /\ awaiting["retryFailed"] > 0
    /\ awaiting' = [awaiting EXCEPT !["retryFailed"] = @ - 1]
    /\ Commit(RetryFailedRest(St, isOnline))
    /\ UNCHANGED <<isOnline, subs, boot, env, hist>>
    /\ UNCHANGED aside

\* -------------------------------------------- clearQueue, removeFromQueue
QueueTags(s) == {s.obj[r].tag : r \in Range(s.queue)}

\* clearQueue() up to `await AsyncStorage.removeItem(QUEUE_KEY)`
ClearQueueStart ==
    /\ budget["remove"] > 0
    /\ budget' = [budget EXCEPT !["remove"] = @ - 1]
    /\ awaiting' = [awaiting EXCEPT !["clearQueue"] = @ + 1]
    /\ removed' = removed \cup QueueTags(St)
    /\ Commit([St EXCEPT !.queue = <<>>, !.storedQueue = Null])
    /\ UNCHANGED <<isOnline, subs, boot, clock, ui, fails, delivered>>
    /\ UNCHANGED aside

ClearQueueResume ==
    /\ awaiting["clearQueue"] > 0
    /\ awaiting' = [awaiting EXCEPT !["clearQueue"] = @ - 1]
    /\ Commit(NotifyListeners(St))
    /\ UNCHANGED <<isOnline, subs, boot, env, hist>>
    /\ UNCHANGED aside

\* removeFromQueue(messageId) up to `await this.saveQueue()`
RemoveFromQueueStart(messageId) ==
    LET s == [St EXCEPT !.queue = WithoutId(St, messageId)] IN
    /\ budget["remove"] > 0
    /\ budget' = [budget EXCEPT !["remove"] = @ - 1]
    /\ awaiting' = [awaiting EXCEPT !["removeFromQueue"] = @ + 1]
    /\ removed' = removed \cup (QueueTags(St) \ QueueTags(s))
    /\ Commit(SaveQueue(s))
    /\ UNCHANGED <<isOnline, subs, boot, clock, ui, fails, delivered>>
    /\ UNCHANGED aside

RemoveFromQueueResume ==
    /\ awaiting["removeFromQueue"] > 0
    /\ awaiting' = [awaiting EXCEPT !["removeFromQueue"] = @ - 1]
    /\ Commit(NotifyListeners(St))
    /\ UNCHANGED <<isOnline, subs, boot, env, hist>>
    /\ UNCHANGED aside

\* --------------------------------------------------------------- sync pass
\* passes without the i-th
DropPass(ps, i) == [j \in 1..(Len(ps) - 1) |-> IF j < i THEN ps[j] ELSE ps[j + 1]]

\* the pass moves on after the outcome of one sendMessage: the next
\* sendMessage is called, or, after the last one,
\* AsyncStorage.setItem(SYNC_STATUS_KEY, {lastSync: now}) is issued (the
\* loop is over and the pass no longer reads its list, which the model drops).
Advance(s, i) ==
    LET p == s.passes[i] IN
    IF p.idx < Len(p.items)
    THEN [s EXCEPT !.passes[i].idx = @ + 1]
    ELSE [s EXCEPT !.passes[i] = [items |-> <<>>, idx |-> 0,
                                  phase |-> "setStatus", by |-> ""],
                   !.storedStatus = clock]

\* sendMessage resolved: the message is filtered out of the queue by id
SendSucceeded(s, i) ==
    LET p == s.passes[i]
        o == s.obj[p.items[p.idx]]
    IN  Advance([s EXCEPT !.queue = WithoutId(s, o.id)], i)

\* sendMessage rejected: the catch block
SendFailed(s, i) ==
    LET p == s.passes[i]
        r == p.items[p.idx]
    IN  Advance([s EXCEPT !.obj[r] = AfterFailure(@)], i)

\* The history counts failures up to MAX_RETRIES + 1 ("more than the bound").
Counted(n) == IF n > MAX_RETRIES THEN MAX_RETRIES + 1 ELSE n

\* The sendMessage the i-th pass awaits settles (resolves if ok).
DeliverResult(i, ok) ==
    /\ i \in DOMAIN passes
    /\ passes[i].phase = "send"
    /\ LET t == obj[passes[i].items[passes[i].idx]].tag IN
       IF ok
       THEN /\ Commit(SendSucceeded(St, i))
            /\ delivered' = delivered \cup {t}
            /\ UNCHANGED fails
       ELSE /\ Commit(SendFailed(St, i))
            /\ fails' = [fails EXCEPT ![t] = Counted(@ + 1)]
            /\ UNCHANGED delivered
    /\ UNCHANGED <<isOnline, subs, boot, env, awaiting, removed>>
    /\ UNCHANGED aside

\* syncQueue() after the write of the sync status: `await this.saveQueue()`
PassSaveQueue(i) ==
    /\ i \in DOMAIN passes
    /\ passes[i].phase = "setStatus"
    /\ Commit([SaveQueue(St) EXCEPT !.passes[i].phase = "saveQueue"])
    /\ UNCHANGED <<isOnline, subs, boot, env, awaiting, hist>>
    /\ UNCHANGED aside

\* syncQueue() after saveQueue: this.notifyListeners(), and the pass is over
PassEnd(s, i) == [NotifyListeners(s) EXCEPT !.passes = DropPass(s.passes, i)]

PassFinish(i) ==
    /\ i \in DOMAIN passes
    /\ passes[i].phase = "saveQueue"
    /\ Commit(PassEnd(St, i))
    /\ UNCHANGED <<isOnline, subs, boot, env, awaiting, hist>>
    /\ UNCHANGED aside

\* The write of the sync status is going to fail: the pass is as after
\* Advance, but AsyncStorage keeps what it held under SYNC_STATUS_KEY.
StatusWriteFails(s, i) ==
    [s EXCEPT !.passes[i].phase = "setStatusRejects",
              !.storedStatus = storedStatus]

\* The last sendMessage of the i-th pass settles and the setItem of the sync
\* status that the pass then issues is one that AsyncStorage rejects.
DeliverResultUnwritten(i, ok) ==
    /\ i \in DOMAIN passes
    /\ passes[i].phase = "send"
    /\ passes[i].idx = Len(passes[i].items)
    /\ LET t == obj[passes[i].items[passes[i].idx]].tag IN
       IF ok
       THEN /\ Commit(StatusWriteFails(SendSucceeded(St, i), i))
            /\ delivered' = delivered \cup {t}
            /\ UNCHANGED fails
       ELSE /\ Commit(StatusWriteFails(SendFailed(St, i), i))
            /\ fails' = [fails EXCEPT ![t] = Counted(@ + 1)]
            /\ UNCHANGED delivered
    /\ UNCHANGED <<isOnline, subs, boot, env, awaiting, removed>>
    /\ UNCHANGED aside

\* `await AsyncStorage.setItem(SYNC_STATUS_KEY, ..)` rejects: the statement is
\* in no try block, so syncQueue() ends there with the exception; nobody
\* awaits the promise it returned
PassRejected(i) ==
    /\ i \in DOMAIN passes
    /\ passes[i].phase = "setStatusRejects"
    /\ Commit([St EXCEPT !.passes = DropPass(@, i)])
    /\ UNCHANGED <<isOnline, subs, boot, env, awaiting, hist>>
    /\ UNCHANGED aside

\* ------------------------------------------------------------- subscribers
\* subscribeToSyncStatus(listener)
Subscribe(l) ==
    /\ l \notin syncListeners
    /\ syncListeners' = syncListeners \cup {l}
    /\ UNCHANGED <<queue, obj, isOnline, received, boot, storedQueue,
                   storedStatus, env, awaiting, passes, notifs, hist>>
    /\ UNCHANGED aside

\* the function subscribeToSyncStatus returned, which the indicator calls
\* when it unmounts: the status it held goes with it
Unsubscribe(l) ==
    /\ l \in syncListeners
    /\ syncListeners' = syncListeners \ {l}
    /\ received' = [received EXCEPT ![l] = NoStatus]
    /\ UNCHANGED <<queue, obj, isOnline, boot, storedQueue,
                   storedStatus, env, awaiting, passes, notifs, hist>>
    /\ UNCHANGED aside

\* The oldest suspended notifyListeners() resumes: getSyncStatus completes
\* and every listener subscribed now is called with the status.
NotifyDeliver ==
    /\ notifs # <<>>
    /\ notifs' = Tail(notifs)
    /\ received' = [l \in Listeners |->
           IF l \in syncListeners
           THEN GetSyncStatusEnd(Head(notifs), queue, obj, isOnline)
           ELSE received[l]]
    /\ UNCHANGED <<queue, obj, isOnline, syncListeners, boot, storedQueue,
                   storedStatus, env, awaiting, passes, hist>>
    /\ UNCHANGED aside

\* ----------------------------------------------------- getSyncStatus by the UI
\* getSyncStatus() up to `await AsyncStorage.getItem(SYNC_STATUS_KEY)`: the
\* counts are taken.  `at` keeps, for comparison, the status of the state in
\* which the call is made.
GetSyncStatusCall ==
    /\ statusCall.pc = "idle"
    /\ statusCall' =
          [pc |-> "getItem",
           counts |-> GetSyncStatusStart(St),
           at |-> GetSyncStatusEnd(GetSyncStatusStart(St), queue, obj,
                                   isOnline),
           result |-> NoStatus]
    /\ UNCHANGED <<queue, obj, isOnline, subs, boot, storedQueue,
                   storedStatus, env, awaiting, passes, notifs, hist>>
    /\ UNCHANGED <<documents, embeddingCache, vdbInitialized, storedDocs,
                   storedCache, ops, returned, embedded, inserted, vbudget>>

\* getSyncStatus() after its await: the status is built and returned
GetSyncStatusReturn ==
    /\ statusCall.pc = "getItem"
    /\ statusCall' =
          [statusCall EXCEPT
              !.pc = "done",
              !.counts = NoStatus,
              !.result = GetSyncStatusEnd(statusCall.counts, queue, obj,
                                          isOnline)]
    /\ UNCHANGED <<queue, obj, isOnline, subs, boot, storedQueue,
                   storedStatus, env, awaiting, passes, notifs, hist>>
    /\ UNCHANGED <<documents, embeddingCache, vdbInitialized, storedDocs,
                   storedCache, ops, returned, embedded, inserted, vbudget>>

\* ------------------------------------------------------------ specification
LiveIds == {obj[r].id : r \in DOMAIN obj}

NextInit ==
    \/ InitializeStart
    \/ InitializeLoad
    \/ \E c \in BOOLEAN : InitializeFinish(c)

\* the network, the timer, queueMessage and the sync passes
NextQueue ==
    \/ \E c \in BOOLEAN : NetInfoEvent(c)
    \/ \E off \in BOOLEAN : SetOfflineMode(off)
    \/ PeriodicSync
    \/ \E m \in Msgs, now \in clock..MaxClock : QueueMessageStart(m, now)
    \/ QueueMessageResume
    \/ \E i \in 1..MaxPasses, ok \in BOOLEAN : DeliverResult(i, ok)
    \/ \E i \in 1..MaxPasses : PassSaveQueue(i)
    \/ \E i \in 1..MaxPasses : PassFinish(i)

NextRetry ==
    \/ RetryFailedStart
    \/ RetryFailedResume

NextRemove ==
    \/ ClearQueueStart
    \/ ClearQueueResume
    \/ \E id \in LiveIds : RemoveFromQueueStart(id)
    \/ RemoveFromQueueResume

NextNotify ==
    \/ \E l \in Listeners : Subscribe(l)
    \/ \E l \in Listeners : Unsubscribe(l)
    \/ NotifyDeliver

\* Spec: the service from the load of the class, with initialize() called at
\* any moment; the UI enqueues and retries, nobody subscribes.
Next == NextInit \/ NextQueue \/ NextRetry

Spec == Init /\ [][Next]_vars

\* SpecReady: the same service in the runs in which initialize() has
\* completed, without an exception, before the UI's first call.
Initialized(snaps) ==
    /\ \E snap \in snaps :
          LET none == [queue |-> <<>>, obj |-> <<>>, passes |-> <<>>]
              s == IF snap = Null THEN none ELSE Parsed(none, snap.items)
          IN  /\ storedQueue = snap
              /\ queue = s.queue
              /\ obj = s.obj
    /\ isOnline \in BOOLEAN
    /\ syncListeners = {}
    /\ syncTimer = TRUE
    /\ initialized = TRUE
    /\ storedStatus = NoSync
    /\ netListener = TRUE
    /\ init = [pc |-> "done", got |-> Null]
    /\ awaiting = [k \in Kinds |-> 0]
    /\ passes = <<>>
    /\ notifs = <<>>
    /\ received = [l \in Listeners |-> NoStatus]
    /\ clock = 0
    /\ fails = [t \in Tags |-> 0]
    /\ delivered = {}
    /\ removed = {}
    /\ statusCall = NoCall
    /\ VectorIdle

InitReady ==
    /\ Initialized(Snapshots \ {Corrupt})
    /\ ui = FALSE
    /\ budget = [k \in Budgets |->
                    CASE k = "queueMessage" -> MaxEnqueue
                      [] k = "retryFailed" -> MaxRetryCalls
                      [] OTHER -> 0]

NextReady == NextQueue \/ NextRetry

SpecReady == InitReady /\ [][NextReady]_vars

\* SpecStatus: the initialized service with the getSyncStatus() call of the
\* indicator; the UI enqueues and does not retry.
NextStatus ==
    \/ GetSyncStatusCall
    \/ GetSyncStatusReturn

InitStatus ==
    /\ Initialized({Json(<<>>), Json(<<OldPending>>)})
    /\ ui = FALSE
    /\ budget = [k \in Budgets |->
                    IF k = "queueMessage" THEN MaxEnqueue ELSE 0]

NextReadyStatus == NextQueue \/ NextStatus

SpecStatus == InitStatus /\ [][NextReadyStatus]_vars

\* SpecNotify: the initialized service with the indicator of
\* OfflineIndicator.tsx, which subscribes, unsubscribes, retries and clears.
\* The previous run left an empty queue or one message that had failed.
OldFailed == [id |-> <<"s0_m0", 0>>, tag |-> 0, status |-> "failed",
              retryCount |-> MAX_RETRIES, error |-> SendError]

InitNotify ==
    /\ Initialized({Json(<<>>), Json(<<OldFailed>>)})
    /\ ui = TRUE
    /\ budget = [k \in Budgets |->
                    CASE k = "queueMessage" -> MaxEnqueue
                      [] k = "retryFailed" -> MaxRetryCalls
                      [] k = "remove" -> MaxRemoveCalls
                      [] OTHER -> MaxReports]

NextNotified ==
    \/ \E c \in BOOLEAN : NetInfoCounted(c)
    \/ \E m \in Msgs, now \in clock..MaxClock : QueueMessageStart(m, now)
    \/ QueueMessageResume
    \/ \E i \in 1..MaxPasses, ok \in BOOLEAN : DeliverResult(i, ok)
    \/ \E i \in 1..MaxPasses : PassSaveQueue(i)
    \/ \E i \in 1..MaxPasses : PassFinish(i)
    \/ NextRetry
    \/ NextRemove
    \/ NextNotify

SpecNotify == InitNotify /\ [][NextNotified]_vars

\* SpecLive: SpecReady with the scheduling the runtime gives: the interval
\* timer keeps firing, every sendMessage settles and every resolved await
\* resumes.
Fairness ==
    /\ WF_vars(PeriodicSync)
    /\ WF_vars(QueueMessageResume)
    /\ WF_vars(RetryFailedResume)
    /\ \A i \in 1..MaxPasses :
          /\ WF_vars(\E ok \in BOOLEAN : DeliverResult(i, ok))
          /\ WF_vars(PassSaveQueue(i))
          /\ WF_vars(PassFinish(i))

SpecLive == InitReady /\ [][NextReady]_vars /\ Fairness

\* SpecWrites: the initialized service with the indicator subscribed or not,
\* and an AsyncStorage that may reject the write of the sync status.
NextWrites ==
    \/ \E c \in BOOLEAN : NetInfoCounted(c)
    \/ \E m \in Msgs, now \in clock..MaxClock : QueueMessageStart(m, now)
    \/ QueueMessageResume
    \/ \E i \in 1..MaxPasses, ok \in BOOLEAN : DeliverResult(i, ok)
    \/ \E i \in 1..MaxPasses, ok \in BOOLEAN : DeliverResultUnwritten(i, ok)
    \/ \E i \in 1..MaxPasses : PassSaveQueue(i)
    \/ \E i \in 1..MaxPasses : PassFinish(i)
    \/ \E i \in 1..MaxPasses : PassRejected(i)
    \/ NextNotify

SpecWrites == InitNotify /\ [][NextWrites]_vars

\* The app is closed and started again: the class is loaded anew, what
\* AsyncStorage holds stays, the calls in flight are gone.
Restart ==
    /\ vbudget["restart"] > 0
    /\ vbudget' = [vbudget EXCEPT !["restart"] = @ - 1]
    /\ documents' = <<>>
    /\ embeddingCache' = <<>>
    /\ vdbInitialized' = FALSE
    /\ ops' = <<>>
    /\ returned' = NoReturn
    /\ embedded' = [t \in Texts |-> 0]
    /\ UNCHANGED <<storedDocs, storedCache, inserted, service>>

\* ---- the vector store
\* the queue nobody has called
ServiceIdle ==
    /\ queue = <<>>
    /\ obj = <<>>
    /\ isOnline = TRUE
    /\ syncListeners = {}
    /\ syncTimer = FALSE
    /\ initialized = FALSE
    /\ storedQueue = Null
    /\ storedStatus = NoSync
    /\ netListener = FALSE
    /\ init = [pc |-> "idle", got |-> Null]
    /\ awaiting = [k \in Kinds |-> 0]
    /\ passes = <<>>
    /\ notifs = <<>>
    /\ received = [l \in Listeners |-> NoStatus]
    /\ clock = 0
    /\ fails = [t \in Tags |-> 0]
    /\ delivered = {}
    /\ removed = {}
    /\ statusCall = NoCall
    /\ ui = FALSE
    /\ budget = [k \in Budgets |-> 0]

NextIndex ==
    \E s \in Sessions : Call(Op("indexSession", s, "", NoExclude, 0))

\* loadSessions: two of the conversations indexed one after the other, each
\* call awaited
NextIndexSome ==
    /\ ops = <<>>
    /\ \E s \in {Session2, Session3} :
           Call(Op("indexSession", s, "", NoExclude, 0))

NextRemoveSession ==
    \E id \in {s.id : s \in Sessions} :
        Call(Op("removeSession", [id |-> id, messages |-> <<>>], "", NoExclude, 0))

NextSearch ==
    \E q \in Queries, limit \in 1..MaxLimit :
        Call(Op("search", NoSession, q, NoExclude, limit))

NextFindSimilar ==
    \E q \in Queries, x \in Excludes, limit \in 1..MaxLimit :
        Call(Op("findSimilar", NoSession, q, x, limit))

NextInitialize ==
    \/ \E k \in 1..MaxOps : InitializeDocs(k)
    \/ \E k \in 1..MaxOps : InitializeCache(k)

NextSettle ==
    \/ \E k \in 1..MaxOps, ok \in BOOLEAN : ProviderResult(k, ok)
    \/ \E k \in 1..MaxOps : SaveResume(k)
    \/ \E k \in 1..MaxOps : SaveDone(k)

\* SpecIndex: the vector store after initialize() has completed, with what
\* an earlier run has stored or nothing; the UI indexes conversations and
\* removes one, while earlier calls are still suspended.
InitIndex ==
    /\ ServiceIdle
    /\ vdbInitialized = TRUE
    /\ \E docs \in {<<>>, <<OldDoc>>} :
          /\ storedDocs = IF docs = <<>> THEN Null ELSE StringifyDocs(docs)
          /\ documents = docs
    /\ \E cache \in {<<>>, <<OldEntry>>} :
          /\ storedCache = IF cache = <<>> THEN Null ELSE StringifyCache(cache)
          /\ embeddingCache = cache
          /\ inserted = [i \in 1..Len(cache) |-> cache[i].key]
    /\ ops = <<>>
    /\ returned = NoReturn
    /\ embedded = [t \in Texts |-> 0]
    /\ vbudget = [k \in VBudgets |->
                     CASE k = "indexSession" -> MaxIndex
                       [] k = "removeSession" -> MaxRemove
                       [] OTHER -> 0]

NextIndexing == NextIndex \/ NextRemoveSession \/ NextSettle

SpecIndex == InitIndex /\ [][NextIndexing]_vars

\* SpecCache: the app starts with a stored cache that is one entry short of
\* the limit; the UI indexes conversations, and the app is restarted once.
FillerCache ==
    [i \in 1..(CacheLimit - 1) |->
        [key |-> "t" \o ToString(i), value |-> Embed("t" \o ToString(i))]]

InitCache ==
    /\ ServiceIdle
    /\ documents = <<>>
    /\ embeddingCache = <<>>
    /\ vdbInitialized = FALSE
    /\ storedDocs = Null
    /\ storedCache = StringifyCache(FillerCache)
    /\ ops = <<>>
    /\ returned = NoReturn
    /\ embedded = [t \in Texts |-> 0]
    /\ inserted = [i \in 1..Len(FillerCache) |-> FillerCache[i].key]
    /\ vbudget = [k \in VBudgets |->
                     CASE k = "indexSession" -> MaxIndex
                       [] k = "restart" -> MaxRestarts
                       [] OTHER -> 0]

NextCache == NextIndexSome \/ NextInitialize \/ NextSettle \/ Restart

SpecCache == InitCache /\ [][NextCache]_vars

\* SpecRemove: the vector store after initialize() has completed, with two
\* documents and a cache one entry short of the limit; the UI indexes a
\* conversation and removes one, the two calls overlapping or not.
StoredDoc(session, i) ==
    [NewDoc(session, session.messages[i], Embed(session.messages[i].content))
        EXCEPT !.timestamp = IsoString(@)]

InitRemove ==
    /\ ServiceIdle
    /\ documents = <<OldDoc, StoredDoc(Session2, 1)>>
    /\ embeddingCache = FillerCache
    /\ vdbInitialized = TRUE
    /\ storedDocs = StringifyDocs(documents)
    /\ storedCache = StringifyCache(FillerCache)
    /\ ops = <<>>
    /\ returned = NoReturn
    /\ embedded = [t \in Texts |-> 0]
    /\ inserted = [i \in 1..Len(FillerCache) |-> FillerCache[i].key]
    /\ vbudget = [k \in VBudgets |->
                     CASE k = "indexSession" -> 1
                       [] k = "removeSession" -> MaxRemove
                       [] OTHER -> 0]

SpecRemove == InitRemove /\ [][NextIndexing]_vars

\* SpecSearch: the vector store after initialize() has completed, empty or
\* with the documents and the cache of an earlier run (the document of c0
\* from the time of another provider); the UI searches, asks for similar
\* messages and indexes a conversation, the calls overlapping or not.
StoredDocs ==
    <<OldDoc, StoredDoc(Session1, 1), StoredDoc(Session1, 2), StoredDoc(Session2, 1)>>
StoredCache ==
    <<[key |-> "hello", value |-> Embed("hello")],
      [key |-> "seven", value |-> Embed("seven")]>>

InitSearch ==
    /\ ServiceIdle
    /\ vdbInitialized = TRUE
    /\ \E docs \in {<<>>, <<OldDoc>>, StoredDocs} :
          /\ storedDocs = IF docs = <<>> THEN Null ELSE StringifyDocs(docs)
          /\ documents = docs
    /\ \E cache \in {<<>>, StoredCache} :
          /\ storedCache = IF cache = <<>> THEN Null ELSE StringifyCache(cache)
          /\ embeddingCache = cache
          /\ inserted = [i \in 1..Len(cache) |-> cache[i].key]
    /\ ops = <<>>
    /\ returned = NoReturn
    /\ embedded = [t \in Texts |-> 0]
    /\ vbudget = [k \in VBudgets |->
                     CASE k = "indexSession" -> 1
                       [] k = "search" -> MaxSearch
                       [] k = "findSimilar" -> MaxSearch
                       [] OTHER -> 0]

NextSearching == NextSearch \/ NextFindSimilar \/ NextIndex \/ NextSettle

SpecSearch == InitSearch /\ [][NextSearching]_vars

\* SpecLoad: the vector store at the start of the app, not yet initialized,
\* with the document and the cache entry an earlier run has stored; the UI
\* indexes, searches and removes, and calls made before the first
\* initialize() has finished overlap with it.
InitLoad ==
    /\ ServiceIdle
    /\ vdbInitialized = FALSE
    /\ documents = <<>>
    /\ embeddingCache = <<>>
    /\ storedDocs = StringifyDocs(<<OldDoc>>)
    /\ storedCache = StringifyCache(<<OldEntry>>)
    /\ inserted = <<>>
    /\ ops = <<>>
    /\ returned = NoReturn
    /\ embedded = [t \in Texts |-> 0]
    /\ vbudget = [k \in VBudgets |->
                     CASE k = "indexSession" -> MaxIndex
                       [] k = "removeSession" -> MaxRemove
                       [] k = "search" -> MaxSearch
                       [] OTHER -> 0]

NextLoading ==
    NextIndex \/ NextSearch \/ NextRemoveSession \/ NextInitialize \/ NextSettle

SpecLoad == InitLoad /\ [][NextLoading]_vars

\* ------------------------------------------------------ derived observations
\* the passes still in their delivery loop
Sending == {i \in DOMAIN passes : passes[i].phase = "send"}

\* the messages a pass took at its start
PassTags(i) == {obj[r].tag : r \in Range(passes[i].items)}

\* the message whose sendMessage the pass awaits
Attempted(i) == obj[passes[i].items[passes[i].idx]].tag

\* the messages queueMessage has added so far
Enqueued == 1..(MaxEnqueue - budget["queueMessage"])

\* the statuses under which a message is in the queue (none: not queued)
StatusOf(q, o, t) == {o[r].status : r \in {x \in Range(q) : o[x].tag = t}}
RetryCountOf(q, o, t) == {o[r].retryCount : r \in {x \in Range(q) : o[x].tag = t}}

\* ------------------------------------------------------------------ claims

\* C1: a sync() invoked while an earlier pass is still in its delivery loop
\* starts no delivery attempt for a message that pass has attempted or is
\* going to attempt; in particular no message has two attempts outstanding.
C1_NoDuplicateAttempt ==
    \A i \in Sending : \A j \in Sending \ {i} : Attempted(j) \notin PassTags(i)

\* C2: at most one sync pass is in its delivery loop at any time.
C2_SinglePass == Cardinality(Sending) <= 1

\* C3: a message added by queueMessage is in the queue until its own
\* delivery is confirmed or clearQueue/removeFromQueue removes it.
C3_NeverDropped ==
    \A t \in Enqueued :
        t \notin delivered \cup removed => StatusOf(queue, obj, t) # {}

\* C4: a message whose delivery fails for the MAX_RETRIES-th time is Failed
\* from that failure on, and no message is Failed after fewer failures (so a
\* message delivered after MAX_RETRIES - 1 failures was never Failed).
C4_FailedAtBound ==
    [][\A t \in Enqueued :
          /\ (fails[t] = MAX_RETRIES - 1 /\ fails'[t] = MAX_RETRIES)
                => StatusOf(queue', obj', t) \subseteq {"failed"}
          /\ "failed" \in StatusOf(queue', obj', t)
                => fails'[t] >= MAX_RETRIES]_vars

\* the state-machine view of a message: its status, retryCount and error in
\* the queue (no element: the message is not queued)
View(q, o, t) ==
    {[status |-> o[r].status, retryCount |-> o[r].retryCount,
      error |-> o[r].error] : r \in {x \in Range(q) : o[x].tag = t}}

\* one transition of the state machine of section 4.3
Transition(a, b, byRetry) ==
    \/ a = b
    \/ /\ a.status = "pending"
       /\ b = [a EXCEPT !.status = "syncing"]
    \/ /\ a.status = "syncing"
       /\ b.retryCount = a.retryCount + 1
       /\ \/ b.retryCount < MAX_RETRIES /\ b.status = "pending"
                /\ b.error = a.error
          \/ b.retryCount >= MAX_RETRIES /\ b.status = "failed"
                /\ b.error # NoError
    \/ /\ a.status = "failed"
       /\ byRetry
       /\ b = [status |-> "pending", retryCount |-> 0, error |-> NoError]

\* C5: every change of a queued message's status and retryCount is a
\* transition of the state machine, a Failed message is changed by
\* retryFailed only, and a message leaves the queue only by its own
\* confirmed delivery (from Syncing) or by clearQueue/removeFromQueue.
C5_StateMachine ==
    [][\A t \in Tags :
          /\ \A a \in View(queue, obj, t) : \A b \in View(queue', obj', t) :
                Transition(a, b, budget'["retryFailed"] < budget["retryFailed"])
          /\ (View(queue, obj, t) # {} /\ View(queue', obj', t) = {})
                => \/ t \in removed'
                   \/ /\ t \in delivered'
                      /\ \A a \in View(queue, obj, t) : a.status = "syncing"]_vars

\* the cached network state changes from offline to online by a report of
\* NetInfo or by setOfflineMode(false) (initialize's own NetInfo.fetch, the
\* only other writer of isOnline, moves initialize on)
Reconnect == ~isOnline /\ isOnline' /\ init' = init

PendingRefs == {r \in Range(queue) : obj[r].status = "pending"}

\* exactly one message is queued, it is Pending, and no pass is in flight
OnePending ==
    /\ Len(queue) = 1
    /\ obj[queue[1]].status = "pending"
    /\ passes = <<>>

\* the only pass in flight awaits the delivery of the only queued message
OneAttempt ==
    /\ Len(queue) = 1
    /\ Len(passes) = 1
    /\ passes[1].phase = "send"
    /\ Len(passes[1].items) = 1
    /\ Attempted(1) = obj[queue[1]].tag

Unsettled(t) == StatusOf(queue, obj, t) \cap {"pending", "syncing"} # {}

\* C7: if the network is online from some moment on, every message that is
\* in the queue Pending or Syncing is eventually out of the queue or Failed.
C7_EventuallySettled ==
    (<>[]isOnline) => \A t \in Tags : [](Unsettled(t) => <>~Unsettled(t))

\* the step is a call of queueMessage / the resumption of one
EnqueueCalled == budget'["queueMessage"] < budget["queueMessage"]
EnqueueResumed == awaiting'["queueMessage"] < awaiting["queueMessage"]

\* C8: the call of queueMessage appends one new message, Pending with
\* retryCount 0, at the tail of the queue, changes no message already queued
\* and writes the resulting queue to storage; when it resumes it issues a
\* notification with the counts of the queue and then starts a pass over the
\* Pending messages if the cached network state is online at that moment, and
\* starts none and changes nothing if it is offline.
C8_Enqueue ==
    [][/\ EnqueueCalled =>
            /\ Len(queue') = Len(queue) + 1
            /\ SubSeq(queue', 1, Len(queue)) = queue
            /\ queue'[Len(queue')] \notin DOMAIN obj
            /\ obj'[queue'[Len(queue')]].status = "pending"
            /\ obj'[queue'[Len(queue')]].retryCount = 0
            /\ \A r \in Range(queue) : obj'[r] = obj[r]
            /\ storedQueue' = Json([i \in 1..Len(queue') |-> obj'[queue'[i]]])
            /\ passes' = passes
       /\ EnqueueResumed =>
            /\ queue' = queue
            /\ Len(notifs') > Len(notifs)
            /\ notifs'[Len(notifs) + 1] = GetSyncStatusStart(St)
            /\ IF isOnline
               THEN /\ \A r \in Range(queue) :
                          obj'[r] = IF r \in PendingRefs
                                    THEN [obj[r] EXCEPT !.status = "syncing"]
                                    ELSE obj[r]
                    /\ IF PendingRefs # {}
                       THEN /\ Len(passes') = Len(passes) + 1
                            /\ passes'[Len(passes')].by = "queueMessage"
                            /\ Range(passes'[Len(passes')].items) = PendingRefs
                       ELSE passes' = passes
               ELSE /\ passes' = passes
                    /\ \A r \in Range(queue) : obj'[r] = obj[r]]_vars

\* queueMessage has added a message behind the one of the previous run, which
\* is as it was, the notification is issued and, the network being online,
\* its pass is delivering the new message
C8_Witness ==
    /\ Len(queue) = 2
    /\ obj[queue[1]] = OldFailed
    /\ obj[queue[2]].tag \in Enqueued
    /\ obj[queue[2]].status = "syncing"
    /\ storedQueue = Json(<<OldFailed,
                            [obj[queue[2]] EXCEPT !.status = "pending"]>>)
    /\ isOnline
    /\ notifs # <<>>
    /\ \E i \in Sending : passes[i].by = "queueMessage"

\* the step is a call of retryFailed() / the resumption of one
RetryCalled == budget'["retryFailed"] < budget["retryFailed"]
RetryResumed == awaiting'["retryFailed"] < awaiting["retryFailed"]

\* C9: the call of retryFailed makes every Failed message Pending with
\* retryCount 0 and no error, changes no Pending or Syncing message and not
\* the order of the queue, and starts no pass yet; when it resumes it calls
\* syncQueue: online with Pending messages, a new pass takes all of them,
\* otherwise nothing changes.
C9_RetryFailed ==
    [][/\ RetryCalled =>
            /\ queue' = queue
            /\ \A r \in Range(queue) :
                  obj'[r] = IF obj[r].status = "failed"
                            THEN [obj[r] EXCEPT !.status = "pending",
                                                !.retryCount = 0,
                                                !.error = NoError]
                            ELSE obj[r]
            /\ passes' = passes
            /\ awaiting'["retryFailed"] = awaiting["retryFailed"] + 1
       /\ RetryResumed =>
            /\ queue' = queue
            /\ IF isOnline /\ PendingRefs # {}
               THEN /\ Len(passes') = Len(passes) + 1
                    /\ passes'[Len(passes')].by = "retryFailed"
                    /\ Range(passes'[Len(passes')].items) = PendingRefs
                    /\ \A r \in Range(queue) :
                          obj'[r] = IF r \in PendingRefs
                                    THEN [obj[r] EXCEPT !.status = "syncing"]
                                    ELSE obj[r]
               ELSE /\ passes' = passes
                    /\ \A r \in Range(queue) : obj'[r] = obj[r]]_vars

\* retryFailed has reset a message that had failed MAX_RETRIES times, next to
\* a Syncing message it left alone, and its syncQueue is delivering it
C9_Witness ==
    /\ Len(queue) = 2
    /\ \E i \in Sending :
          /\ passes[i].by = "retryFailed"
          /\ fails[Attempted(i)] >= MAX_RETRIES
          /\ \E r \in Range(queue) :
                /\ obj[r].tag = Attempted(i)
                /\ obj[r].status = "syncing"
                /\ obj[r].retryCount = 0
                /\ obj[r].error = NoError
          /\ \E r \in Range(queue) :
                /\ obj[r].tag # Attempted(i)
                /\ obj[r].status = "syncing"
                /\ obj[r].retryCount = 1

\* getSyncStatus() of the current state
CurrentStatus ==
    GetSyncStatusEnd(GetSyncStatusStart(St), queue, obj, isOnline)

\* no call of the service is suspended
Quiescent ==
    /\ passes = <<>>
    /\ notifs = <<>>
    /\ \A k \in Kinds : awaiting[k] = 0

\* a message retryFailed has reset is waiting in the queue
ResetWaiting ==
    \E r \in Range(queue) :
        /\ obj[r].status = "pending"
        /\ obj[r].retryCount = 0
        /\ obj[r].tag = 0 \/ fails[obj[r].tag] >= MAX_RETRIES

\* the step completes queueMessage, a sync pass, clearQueue or a retryFailed
\* that has reset a message
OperationDone ==
    \/ EnqueueResumed
    \/ Len(passes') < Len(passes)
    \/ awaiting'["clearQueue"] < awaiting["clearQueue"]
    \/ RetryResumed /\ ResetWaiting

\* C10: the step that completes a state-changing operation (queueMessage, a
\* sync pass, retryFailed, clearQueue) issues a notification that carries the
\* counts of the resulting state, online or offline; and when no call is
\* suspended any more, a subscribed listener that has been called holds the
\* status getSyncStatus() returns in that state.
C10_NotifiedAfterEveryOperation ==
    /\ [][OperationDone =>
             /\ Len(notifs') > Len(notifs)
             /\ notifs'[Len(notifs')] = GetSyncStatusStart(St')]_vars
    /\ [](Quiescent =>
             \A l \in syncListeners :
                 received[l] # NoStatus => received[l] = CurrentStatus)

\* C11: the SyncStatus a getSyncStatus() call returns is the status of the
\* state in which the call was made: all of pendingCount, failedCount,
\* lastSync, isOnline and isSyncing are those of that one state.
C11_StatusOfOneState ==
    statusCall.pc = "done" => statusCall.result = statusCall.at

\* the step is a call of indexSession
IndexCalled == vbudget'["indexSession"] < vbudget["indexSession"]

\* every message of the conversation has a document with its id and its text
Indexed(docs, session) ==
    \A i \in 1..Len(session.messages) :
        /\ HasDoc(docs, DocId(session, session.messages[i]))
        /\ GetDoc(docs, DocId(session, session.messages[i])).content
               = session.messages[i].content

\* C12: indexSession called for a conversation in which every message has a
\* document with the same id and the same text calls the embedding provider
\* for no message and leaves the documents as they are: it goes straight to
\* saving them.
C12_ReindexIdempotent ==
    [][IndexCalled /\ Indexed(documents, ops'[Len(ops')].session) =>
          /\ documents' = documents
          /\ embedded' = embedded
          /\ ops'[Len(ops')].pc = "setDocs"
          /\ storedDocs' = StringifyDocs(documents)]_vars

\* Session1 was indexed, that call has returned, nothing was removed, and
\* the second indexSession(Session1) has just been called
C12_Witness ==
    /\ Len(ops) = 1
    /\ ops[1].kind = "indexSession"
    /\ ops[1].session = Session1
    /\ ops[1].pc = "setDocs"
    /\ returned.op.kind = "indexSession"
    /\ returned.op.session = Session1
    /\ vbudget["indexSession"] = 0
    /\ vbudget["removeSession"] = MaxRemove
    /\ Indexed(documents, Session1)

\* C13: the cache is keyed by the exact text: for a text that messages of
\* indexed conversations carry, in whatever order the index operations run,
\* the provider is called once, and every later occurrence is served from the
\* cache, as long as the entry has not been pruned.
C13_OneCallPerText ==
    \A t \in Texts : embedded[t] <= 1

\* the step is saveToStorage between its two writes, and it cuts the cache
Pruned ==
    /\ Len(ops') = Len(ops)
    /\ \E k \in 1..Len(ops) : ops[k].pc = "setDocs" /\ ops'[k].pc = "setCache"
    /\ Len(embeddingCache') < Len(embeddingCache)

\* the keys of a cache
KeysOf(cache) == {cache[i].key : i \in 1..Len(cache)}

\* every key of `dropped` was inserted before every key of `kept`
AllInsertedBefore(dropped, kept) ==
    LET both == SelectSeq(inserted, LAMBDA k : k \in dropped \cup kept)
    IN  \A i \in 1..Len(both) :
            both[i] \in dropped <=> i <= Cardinality(dropped)

\* C14: the cache is cut only when it holds more than 1000 entries, and then
\* to its 500 most recently inserted entries: every entry it drops was
\* inserted before every entry it keeps; and once no index or remove
\* operation is in flight it holds at most 1000 entries.
C14_PrunedToMostRecent ==
    /\ [][Pruned =>
             /\ Len(embeddingCache) > CacheLimit
             /\ Len(embeddingCache') = CacheKeep
             /\ KeysOf(embeddingCache') \subseteq KeysOf(embeddingCache)
             /\ AllInsertedBefore(
                    KeysOf(embeddingCache) \ KeysOf(embeddingCache'),
                    KeysOf(embeddingCache'))]_vars
    /\ [](ops = <<>> /\ vdbInitialized => Len(embeddingCache) <= CacheLimit)

\* the document with the id, if there is one
DocsOf(docs, id) == {docs[i] : i \in {j \in 1..Len(docs) : docs[j].id = id}}

\* the k-th call is an indexSession whose createEmbedding settles in the step
IndexSettled(k) ==
    /\ k \in 1..Len(ops)
    /\ ops[k].kind = "indexSession"
    /\ ops[k].pc = "createEmbedding"
    /\ Len(ops') = Len(ops)
    /\ ops'[k].i > ops[k].i

RemoveCalled == vbudget'["removeSession"] < vbudget["removeSession"]

\* the k-th call is a removeSession that goes on in the step from the first
\* write of saveToStorage to the second
RemoveSaved(k) ==
    /\ k \in 1..Len(ops)
    /\ ops[k].kind = "removeSession"
    /\ ops[k].pc = "setDocs"
    /\ Len(ops') = Len(ops)
    /\ ops'[k].pc = "setCache"

\* the k-th call is a removeSession that returns in the step
RemoveReturned(k) ==
    /\ k \in 1..Len(ops)
    /\ ops[k].kind = "removeSession"
    /\ ops[k].pc = "setCache"
    /\ Len(ops') < Len(ops)

\* what the call of removeSession does: no document of the conversation is
\* left, the documents of the other conversations are as they were and in
\* their order, the cache is as it was, the documents are written
RemoveEffect ==
    RemoveCalled =>
        /\ \A i \in 1..Len(documents') :
               documents'[i].sessionId # ops'[Len(ops')].session.id
        /\ documents' = SelectSeq(documents, LAMBDA d :
                            d.sessionId # ops'[Len(ops')].session.id)
        /\ embeddingCache' = embeddingCache
        /\ storedDocs' = StringifyDocs(documents')

TimeOf(timestamp) ==
    IF "date" \in DOMAIN timestamp THEN timestamp.date ELSE timestamp.iso

\* a call of the kind returns in the step, its createEmbedding not rejected
Answered(kind) ==
    /\ returned' # returned
    /\ returned'.op.kind = kind
    /\ returned'.op.failed = {}

\* the result is the projection of the document, scored against the text
ResultOf(r, doc, text) ==
    /\ r.sessionId = doc.sessionId
    /\ r.messageId = doc.messageId
    /\ r.content = doc.content
    /\ r.timestamp = doc.timestamp
    /\ r.score = CosineSimilarity(Embed(text), doc.embedding)

\* the results are of documents among docs, one per document
OnePerDocument(rs, docs, text) ==
    \E f \in [1..Len(rs) -> 1..Len(docs)] :
        /\ \A i, j \in 1..Len(rs) : i # j => f[i] # f[j]
        /\ \A i \in 1..Len(rs) : ResultOf(rs[i], docs[f[i]], text)

\* no result is below a later one
Descending(rs) ==
    \A i, j \in 1..Len(rs) : i < j => ~Less(rs[i].score, rs[j].score)

\* the scores are equal as numbers
Same(a, b) == Signed(a, b) = Signed(b, a)

\* of two results of equal score the more recent one is first
RecentFirst(rs) ==
    \A i, j \in 1..Len(rs) :
        i < j /\ Same(rs[i].score, rs[j].score) =>
            TimeOf(rs[i].timestamp) >= TimeOf(rs[j].timestamp)

\* no document of docs that is not among the results scores higher than one
\* that is
BestOf(rs, docs, text) ==
    \A d \in 1..Len(docs) :
        (\A i \in 1..Len(rs) : ~ResultOf(rs[i], docs[d], text)) =>
            \A i \in 1..Len(rs) :
                ~Less(rs[i].score, CosineSimilarity(Embed(text), docs[d].embedding))

\* C17: search(query, limit) returns min(limit, number of documents)
\* results, one per document, in descending order of their cosine similarity
\* to the embedding of the query, results of equal score with the more recent
\* timestamp first; no document left out scores higher than a returned one.
C17_SearchRanked ==
    [][Answered("search") =>
          LET rs == returned'.results
              op == returned'.op
          IN  /\ Len(rs) = IF op.limit < Len(documents) THEN op.limit
                           ELSE Len(documents)
              /\ OnePerDocument(rs, documents, op.text)
              /\ Descending(rs)
              /\ RecentFirst(rs)
              /\ BestOf(rs, documents, op.text)]_vars

\* the score is not below the threshold 0.7
NotBelowThreshold(score) ==
    /\ score.num > 0
    /\ ThresholdDen * ThresholdDen * score.num * score.num
           >= ThresholdNum * ThresholdNum * score.den2

\* the documents findSimilar has to choose from: those of other
\* conversations than the excluded one, of another text, and of a score not
\* below the threshold
Eligible(docs, text, exclude) ==
    SelectSeq(docs, LAMBDA d :
        /\ exclude = NoExclude \/ d.sessionId # exclude
        /\ d.content # text
        /\ NotBelowThreshold(CosineSimilarity(Embed(text), d.embedding)))

\* C18: findSimilar(text, excludeSessionId, limit) returns no document of the
\* excluded conversation and no document whose text is `text`; it returns the
\* remaining documents whose score is not below the threshold 0.7 (a score
\* equal to it is kept), best first, cut to limit.
C18_FindSimilar ==
    [][Answered("findSimilar") =>
          LET rs == returned'.results
              op == returned'.op
              docs == Eligible(documents, op.text, op.exclude)
          IN  /\ \A i \in 1..Len(rs) :
                     /\ op.exclude # NoExclude => rs[i].sessionId # op.exclude
                     /\ rs[i].content # op.text
              /\ Len(rs) = IF op.limit < Len(docs) THEN op.limit ELSE Len(docs)
              /\ OnePerDocument(rs, docs, op.text)
              /\ Descending(rs)
              /\ BestOf(rs, docs, op.text)]_vars

\* the vectors differ in length, or one of them has norm 0
NoAngle(vec1, vec2) ==
    \/ Len(vec1) # Len(vec2)
    \/ \A i \in 1..Len(vec1) : vec1[i] = 0
    \/ \A i \in 1..Len(vec2) : vec2[i] = 0

\* C19: the cosine similarity of two vectors of different lengths, or one of
\* which has norm 0, is 0 and not an error; in a search, a document whose
\* embedding is such a vector for the query is scored exactly 0 and ranked
\* like any other: it is among the results unless the limit has cut it off
\* behind documents that score no less.
C19_ZeroSimilarity ==
    [][Answered("search") =>
          LET rs == returned'.results
              op == returned'.op
          IN  \A d \in 1..Len(documents) :
                  NoAngle(Embed(op.text), documents[d].embedding) =>
                      /\ CosineSimilarity(Embed(op.text), documents[d].embedding) = Zero
                      /\ \/ \E i \in 1..Len(rs) :
                               /\ ResultOf(rs[i], documents[d], op.text)
                               /\ rs[i].score = Zero
                         \/ /\ Len(rs) = op.limit
                            /\ \A i \in 1..Len(rs) : ~Less(rs[i].score, Zero)]_vars

\* search("hello", 2) has returned the document of c2 with score 1 and,
\* behind it, the document of c0, whose embedding has 2 numbers, with score 0
C19_Witness ==
    /\ returned.op.kind = "search"
    /\ returned.op.text = "hello"
    /\ Len(returned.results) = 2
    /\ returned.results[1].sessionId = "c2"
    /\ returned.results[1].score = [num |-> 1, den2 |-> 1]
    /\ returned.results[2].sessionId = "c0"
    /\ returned.results[2].score = Zero

\* C20: a stored queue that does not parse leaves the service as one that
\* found nothing stored: once initialize() has completed, whatever it has
\* read, the NetInfo listener that syncs on a transition from offline to
\* online is registered and the periodic timer is running.
C20_CorruptAsEmpty ==
    init.pc = "done" => netListener /\ syncTimer

\* C21: a write to AsyncStorage that fails is swallowed.  For a sync pass:
\* whether its writes succeed or not, the pass ends with the queue it would
\* have with successful writes (the step that ends it leaves the queue and
\* its objects as they are) and with a notification of the listeners that
\* carries the counts of that queue.
C21_WriteFailureSwallowed ==
    [][Len(passes') < Len(passes) =>
          /\ queue' = queue
          /\ \A r \in Range(queue) : obj'[r] = obj[r]
          /\ Len(notifs') > Len(notifs)
          /\ notifs'[Len(notifs')] = GetSyncStatusStart(St')]_vars

\* C22: in every state of the queue a failed message has retryCount >=
\* MAX_RETRIES, a pending or syncing message has retryCount < MAX_RETRIES, and
\* no retryCount exceeds MAX_RETRIES.
C22_RetryBound ==
    \A r \in Range(queue) :
        /\ obj[r].status = "failed" => obj[r].retryCount >= MAX_RETRIES
        /\ obj[r].status \in {"pending", "syncing"} =>
              obj[r].retryCount < MAX_RETRIES
        /\ obj[r].retryCount <= MAX_RETRIES

\* a message enqueued in this run has failed MAX_RETRIES times and is failed
C22_Witness ==
    \E r \in Range(queue) :
        /\ obj[r].tag \in Enqueued
        /\ fails[obj[r].tag] = MAX_RETRIES
        /\ obj[r].status = "failed"
        /\ obj[r].retryCount = MAX_RETRIES

\* a pass starts in this step: it is the last of passes'
PassStarted == Len(passes') > Len(passes)

\* the i-th pass takes a step in which no pass ends
PassMoved(i) ==
    /\ passes[i].phase = "send"
    /\ Len(passes') >= Len(passes)
    /\ passes'[i] # passes[i]

\* the messages of the i-th pass that are in the queue after the step
StillSyncing(i) ==
    {r \in Range(passes[i].items) :
        r \in Range(queue') /\ obj'[r].status = "syncing"}

\* C23: within one sync pass every message that was pending when the pass
\* started gets exactly one delivery attempt, the attempts are made one after
\* another in enqueue order, a failed delivery does not prevent the attempts
\* for the later messages, and when the loop of the pass is over none of its
\* messages is still syncing.
C23_OnePassOneAttemptEach ==
    [][/\ PassStarted =>
             LET p == passes'[Len(passes')] IN
             /\ p.items = SelectSeq(queue, LAMBDA r : r \in PendingRefs)
             /\ p.idx = 1
             /\ p.phase = "send"
       /\ \A i \in DOMAIN passes :
             PassMoved(i) =>
                 IF passes[i].idx < Len(passes[i].items)
                 THEN passes'[i] = [passes[i] EXCEPT !.idx = @ + 1]
                 ELSE /\ passes'[i].phase # "send"
                      /\ StillSyncing(i) = {}]_vars

\* no pass in flight takes a step: the step is a call of the API, a report
\* of the network state or the timer
NoPassMoved == \A i \in DOMAIN passes : i \in DOMAIN passes' /\ passes'[i] = passes[i]

\* C24: syncQueue() called while the cached network state is offline does
\* nothing: no delivery attempt starts, no message becomes syncing, no
\* retryCount grows and no time of the last sync is written; a message
\* enqueued while offline stays pending.
C24_OfflineSyncNoop ==
    [][(~isOnline' /\ NoPassMoved) =>
          /\ passes' = passes
          /\ storedStatus' = storedStatus
          /\ \A r \in Range(queue) \cap Range(queue') :
                /\ obj'[r].status = "syncing" => obj[r].status = "syncing"
                /\ obj'[r].retryCount <= obj[r].retryCount
                /\ (EnqueueResumed /\ obj[r].status = "pending") =>
                      obj'[r].status = "pending"]_vars

\* queueMessage and retryFailed have completed offline: the message of this
\* run is pending, never attempted, and no pass is in flight
C24_Witness ==
    /\ ~isOnline
    /\ budget["queueMessage"] = 0 /\ awaiting["queueMessage"] = 0
    /\ budget["retryFailed"] < MaxRetryCalls /\ awaiting["retryFailed"] = 0
    /\ passes = <<>>
    /\ delivered = {}
    /\ \E r \in Range(queue) :
          /\ obj[r].tag \in Enqueued
          /\ obj[r].status = "pending"
          /\ fails[obj[r].tag] = 0

\* what a fresh instance holds after initialize() has read the snapshot
LoadedQueue == IF storedQueue \in {Null, Corrupt} THEN <<>> ELSE storedQueue.items
LoadedDocs == IF storedDocs \in {Null, Corrupt} THEN <<>> ELSE Parse(storedDocs)

\* the documents with each timestamp as the time it stands for
Timed(docs) == [i \in 1..Len(docs) |-> [docs[i] EXCEPT !.timestamp = TimeOf(@)]]

\* the queue service has loaded its snapshot and none of its calls is
\* suspended; the same for the vector store
QueueCompleted ==
    /\ init.pc = "done"
    /\ passes = <<>>
    /\ \A k \in Kinds : awaiting[k] = 0

VectorCompleted ==
    /\ vdbInitialized
    /\ ops = <<>>

\* C25: when every started operation has completed (no write fails in these
\* runs), the queue stored under QUEUE_KEY is the queue in memory and the
\* documents stored under VECTOR_DB_KEY are the documents in memory, the
\* timestamps compared as times: a fresh instance that loads the snapshot
\* holds the same state.
C25_SnapshotTracksMemory ==
    /\ QueueCompleted => LoadedQueue = Items(St)
    /\ VectorCompleted => Timed(LoadedDocs) = Timed(documents)

\* the passes that have yet to attempt or are attempting the message r
Responsible(r) ==
    {i \in Sending :
        \E k \in passes[i].idx..Len(passes[i].items) : passes[i].items[k] = r}

\* C26: a message of the queue is syncing only while a pass that is
\* responsible for it is in flight; with no pass in flight, also right after
\* initialize() has loaded a queue saved while a pass was running, no message
\* is syncing.
C26_SyncingOnlyInPass ==
    \A r \in Range(queue) :
        obj[r].status = "syncing" => Responsible(r) # {}

\* the messages for which a sendMessage is called in this step: the first
\* of a pass that starts, the next of a pass whose sendMessage has settled
AttemptsStarted ==
    IF Len(passes') < Len(passes) THEN {}
    ELSE {obj'[passes'[i].items[passes'[i].idx]].tag :
             i \in {j \in DOMAIN passes' :
                       /\ passes'[j].phase = "send"
                       /\ j \in DOMAIN passes => passes[j] # passes'[j]}}

\* C27: a message removed by clearQueue() or removeFromQueue() is not
\* delivered afterwards: no sendMessage is called for it once it is removed,
\* not even by a pass that had marked it syncing before, and no pass puts it
\* back into the queue.
C27_RemovedNotDelivered ==
    [][/\ AttemptsStarted \cap removed = {}
       /\ {obj'[r].tag : r \in Range(queue')} \cap removed' = {}]_vars

\* C28: no sendMessage is called while the cached network state is offline:
\* a pass whose network went offline starts no attempt for its remaining
\* messages.
C28_NoAttemptOffline ==
    [][AttemptsStarted # {} => isOnline']_vars

\* the k-th call is an indexSession that resumes from createEmbedding in the
\* step
IndexResumed(k) ==
    /\ k \in 1..Len(ops)
    /\ ops[k].kind = "indexSession"
    /\ ops[k].pc = "createEmbedding"
    /\ Len(ops') = Len(ops)
    /\ ops'[k] # ops[k]

\* the documents of a conversation, in the order of the Map
OfSession(docs, id) == SelectSeq(docs, LAMBDA d : d.sessionId = id)

\* C29: once removeSession(id) has returned, an indexSession of that
\* conversation that was called before and was suspended on createEmbedding
\* sets no document when it resumes: the documents of the conversation stay
\* as they are until a later indexSession is called.
C29_NoReinsertAfterRemove ==
    [][\A k \in 1..MaxOps : (IndexResumed(k) /\ ops[k].cut) =>
          OfSession(documents', ops[k].session.id) =
              OfSession(documents, ops[k].session.id)]_vars

\* the k-th call resumes in its initialize() with the stored documents, or
\* with the stored cache
DocsLoaded(k) ==
    /\ k \in 1..Len(ops)
    /\ ops[k].pc = "getDocs"
    /\ Len(ops') = Len(ops)
    /\ ops'[k].pc = "getCache"

CacheLoaded(k) ==
    /\ k \in 1..Len(ops)
    /\ ops[k].pc = "getCache"
    /\ Len(ops') < Len(ops) \/ ops'[k].pc # "getCache"

\* C30: the vector store loads its snapshot at most once: when several
\* calls have entered initialize() before the first load has finished, the
\* load of a later one discards no document and no cache entry that is in
\* memory by then.
C30_LoadedOnce ==
    [][\A k \in 1..MaxOps :
          /\ DocsLoaded(k) =>
                \A i \in 1..Len(documents) : HasDoc(documents', documents[i].id)
          /\ CacheLoaded(k) =>
                KeysOf(embeddingCache) \subseteq KeysOf(embeddingCache')]_vars

====
